---- MODULE Spec2Model ----
(***************************************************************************)
(* Genetic-algorithm TSP solver with circular obstacles (api/index.py).    *)
(*                                                                         *)
(* Routes are Python lists of city indices; a list is modelled as a TLA+   *)
(* sequence, so Python position i is TLA+ position i + 1 while the city    *)
(* indices stored in a route stay 0-based.  Lists are heap objects: the    *)
(* populations hold references into heap, so that the in-place swap of     *)
(* mutate is a write to one object and aliasing would be visible.          *)
(*                                                                         *)
(* random.random() is modelled as a draw k in 0..RandRes-1 standing for    *)
(* the float k / RandRes in [0, 1).                                        *)
(*                                                                         *)
(* Coordinates and radii are integers.  The city layout is chosen so that  *)
(* every distance is an integer (a 3 x 4 rectangle), which makes           *)
(* math.sqrt exact; the segment/circle test is evaluated in exact rational *)
(* arithmetic with the division cleared.                                   *)
(***************************************************************************)
EXTENDS Integers, Sequences, FiniteSets, TLC

\* ---- bounds of the model ------------------------------------------------
MaxInitPop == 2      \* size of a short population, supplied or created
MaxGens == 2         \* generations_per_step ranges over 0..MaxGens
MaxCalls == 2        \* evolve calls in a feed-back sequence
RandRes == 4         \* resolution of the random source

\* ---- program constants --------------------------------------------------
PENALTY == 10000     \* line 73
ELITE == 10          \* line 137
POOL == 50           \* lines 142-143
MIN_CITIES == 2      \* line 117

None == -1           \* Python None in [None] * len(parent1): equal to no city index
IndexError == <<-2>> \* result standing for a raised IndexError

Min(a, b) == IF a < b THEN a ELSE b
Max(a, b) == IF a > b THEN a ELSE b
Range(s) == {s[i] : i \in DOMAIN s}

\* ---- input universe -----------------------------------------------------
Point(px, py) == [x |-> px, y |-> py]
Obstacle(px, py, r) == [x |-> px, y |-> py, radius |-> r]

AllCities == <<Point(0, 0), Point(3, 0), Point(3, 4), Point(0, 4)>>
ObstacleUniverse == {Obstacle(2, 0, 1), Obstacle(1, 2, 2), Obstacle(3, 2, 1), Obstacle(9, 9, 1)}

\* ---- geometry -----------------------------------------------------------
\* math.sqrt on a perfect square
Sqrt(s) == CHOOSE r \in 0..s : r * r = s

calculate_distance(city1, city2) ==
    Sqrt((city1.x - city2.x) * (city1.x - city2.x) + (city1.y - city2.y) * (city1.y - city2.y))

\* t = num / den clamped to [0, 1] is kept as the fraction tn / den;
\* dist_sq < radius^2 is compared after multiplying both sides by den^2.
line_intersects_circle(p1, p2, circle) ==
    LET dx == p2.x - p1.x
        dy == p2.y - p1.y
    IN  IF dx = 0 /\ dy = 0 THEN FALSE
        ELSE LET den == dx * dx + dy * dy
                 num == (circle.x - p1.x) * dx + (circle.y - p1.y) * dy
                 tn == Max(0, Min(den, num))
                 cxd == p1.x * den + tn * dx - circle.x * den
                 cyd == p1.y * den + tn * dy - circle.y * den
             IN  cxd * cxd + cyd * cyd < circle.radius * circle.radius * den * den

\* ---- fitness ------------------------------------------------------------
\* inner loop, lines 71-73: penalty after the obstacles from position k on
RECURSIVE obstacle_loop(_, _, _, _, _)
obstacle_loop(from_city, to_city, obstacles, k, penalty) ==
    IF k > Len(obstacles) THEN penalty
    ELSE obstacle_loop(from_city, to_city, obstacles, k + 1,
            IF line_intersects_circle(from_city, to_city, obstacles[k])
            THEN penalty + PENALTY ELSE penalty)

\* mutant: the tour is not closed, the last city is its own successor
NextIndexNoWrap(i, n) == Min(i + 1, n - 1)

\* Python index of the successor of position i in the route (line 65)
NextIndex(i, n) == (i + 1) % n

\* outer loop, lines 63-73: the accumulators dist and penalty from position i on
RECURSIVE route_loop(_, _, _, _, _)
route_loop(route_indices, cities, obstacles, i, acc) ==
    IF i >= Len(route_indices) THEN acc
    ELSE LET from_city == cities[route_indices[i + 1] + 1]
             to_city == cities[route_indices[NextIndex(i, Len(route_indices)) + 1] + 1]
         IN  route_loop(route_indices, cities, obstacles, i + 1,
                [dist |-> acc.dist + calculate_distance(from_city, to_city),
                 penalty |-> obstacle_loop(from_city, to_city, obstacles, 1, acc.penalty)])

route_totals(route_indices, cities, obstacles) ==
    route_loop(route_indices, cities, obstacles, 0, [dist |-> 0, penalty |-> 0])

get_route_distance(route_indices, cities, obstacles) ==
    LET acc == route_totals(route_indices, cities, obstacles)
    IN  acc.dist + acc.penalty

\* ---- genetic operators ---------------------------------------------------
\* int(random.random() * n) for the draw r / RandRes (lines 87, 88, 111)
RandIndex(r, n) == (r * n) \div RandRes

\* mutant: route[i] = route[j] alone, the old route[i] is lost
SwapOverwrite(route, i, j) == [route EXCEPT ![i + 1] = route[j + 1]]

\* route[i], route[j] = route[j], route[i] at Python positions i and j (line 112)
Swap(route, i, j) == [route EXCEPT ![i + 1] = route[j + 1], ![j + 1] = route[i + 1]]

\* random.shuffle(x): Fisher-Yates from the last position down, js[i] the
\* position drawn in 0..i for position i
RECURSIVE shuffle_loop(_, _, _)
shuffle_loop(x, js, i) ==
    IF i < 1 THEN x ELSE shuffle_loop(Swap(x, i, js[i]), js, i - 1)

shuffle(x, js) == shuffle_loop(x, js, Len(x) - 1)

ShuffleDraws(n) == {js \in [1..(n - 1) -> 0..(n - 1)] : \A i \in 1..(n - 1) : js[i] <= i}

\* lines 80-82: the k-th pass shuffles the list left by the pass before and
\* appends a copy of it
RECURSIVE create_loop(_, _, _, _, _)
create_loop(population, indices, pop_size, draws, k) ==
    IF k > pop_size THEN population
    ELSE LET shuffled == shuffle(indices, draws[k])
         IN  create_loop(Append(population, shuffled), shuffled, pop_size, draws, k + 1)

create_initial_population(pop_size, n_cities, draws) ==
    create_loop(<<>>, [i \in 1..n_cities |-> i - 1], pop_size, draws, 1)

\* lines 87-90: the two cut points, ordered
breed_cuts(n, r1, r2) ==
    LET start == RandIndex(r1, n)
        end == RandIndex(r2, n)
    IN  IF start > end THEN [start |-> end, end |-> start]
        ELSE [start |-> start, end |-> end]

\* mutant: the copy runs over range(start, end + 1)
copy_segment_inclusive(parent1, start, end) ==
    [i \in 1..Len(parent1) |-> IF start <= i - 1 /\ i - 1 <= end THEN parent1[i] ELSE None]

\* lines 92-95: child after the copy of parent1[start:end]
copy_segment(parent1, start, end) ==
    [i \in 1..Len(parent1) |-> IF start <= i - 1 /\ i - 1 < end THEN parent1[i] ELSE None]

\* lines 101-102: while parent2[p2_index] in child: p2_index += 1
\* (Len(parent2) stands for the IndexError of reading past the end)
RECURSIVE scan_parent2(_, _, _)
scan_parent2(parent2, child, p2_index) ==
    IF p2_index >= Len(parent2) THEN Len(parent2)
    ELSE IF parent2[p2_index + 1] \in Range(child)
         THEN scan_parent2(parent2, child, p2_index + 1)
         ELSE p2_index

\* lines 99-103: fill the unset positions from position i on
RECURSIVE fill_loop(_, _, _, _)
fill_loop(parent2, child, i, p2_index) ==
    IF i >= Len(child) THEN child
    ELSE IF child[i + 1] = None
         THEN LET p2 == scan_parent2(parent2, child, p2_index)
              IN  IF p2 >= Len(parent2) THEN IndexError
                  ELSE fill_loop(parent2, [child EXCEPT ![i + 1] = parent2[p2 + 1]], i + 1, p2)
         ELSE fill_loop(parent2, child, i + 1, p2_index)

breed(parent1, parent2, r1, r2) ==
    LET cuts == breed_cuts(Len(parent1), r1, r2)
    IN  fill_loop(parent2, copy_segment(parent1, cuts.start, cuts.end), 0, 0)

\* lines 110-112: one pass of the loop body of mutate at position i
mutate_step(route, mutation_rate, i, r, rs) ==
    IF r < mutation_rate THEN Swap(route, i, RandIndex(rs, Len(route))) ELSE route

\* ---- ranking ------------------------------------------------------------
\* list.sort(key = score) is stable: an entry goes behind the entries of equal score
RECURSIVE insert_by_score(_, _)
insert_by_score(sorted, entry) ==
    IF sorted = <<>> THEN <<entry>>
    ELSE IF entry.score < Head(sorted).score THEN <<entry>> \o sorted
         ELSE <<Head(sorted)>> \o insert_by_score(Tail(sorted), entry)

RECURSIVE sort_by_score(_)
sort_by_score(scored) ==
    IF scored = <<>> THEN <<>>
    ELSE insert_by_score(sort_by_score(SubSeq(scored, 1, Len(scored) - 1)), scored[Len(scored)])

\* Python slice s[:k]
Slice(s, k) == SubSeq(s, 1, Min(k, Len(s)))

\* mutant: scored_pop[1:11], the best route is left out
elite_slice_from_second(scored_pop) == SubSeq(scored_pop, 2, Min(ELITE + 1, Len(scored_pop)))

\* line 137: scored_pop[:10]
elite_slice(scored_pop) == Slice(scored_pop, ELITE)

\* lines 142-143: scored_pop[:50]
parent_pool(scored_pop) == Slice(scored_pop, POOL)

\* ---- inputs --------------------------------------------------------------
Draws == 0..(RandRes - 1)                       \* values of random.random()
Rates == {0, RandRes \div 2, RandRes}           \* mutation_rate 0, 1/2 and 1, as a count of draws
Cities(n) == SubSeq(AllCities, 1, n)
Identity(n) == [i \in 1..n |-> i - 1]
Perms(n) == {p \in [1..n -> 0..(n - 1)] : \A i, j \in 1..n : p[i] = p[j] => i = j}

\* routes a caller supplies: two transpositions of the identity and the
\* identity; for four cities the costliest tour comes first
SeedRoutes(n) ==
    IF n >= 3 THEN <<Swap(Identity(n), 1, 2), Swap(Identity(n), n - 2, n - 1), Identity(n)>>
    ELSE <<Swap(Identity(n), 0, 1), Identity(n)>>

\* a population of size routes that runs through the seed routes from offset on
SeedPopulation(n, size, offset) ==
    [k \in 1..size |-> SeedRoutes(n)[((k - 1 + offset) % Len(SeedRoutes(n))) + 1]]

ObstacleLists ==
    {<<>>} \cup {<<o>> : o \in ObstacleUniverse}
        \cup {<<o1, o2>> : o1 \in ObstacleUniverse, o2 \in ObstacleUniverse}

\* ---- state --------------------------------------------------------------
VARIABLES
    cities, obstacles, req_population, pop_size, mutation_rate, generations_per_step,
    heap,          \* the list objects: reference -> contents
    current_pop,   \* references
    scored_pop,    \* [score, ref] records
    new_pop,       \* references
    gen,           \* iterations of the loop of line 126 begun so far
    parent1,       \* reference of the first parent drawn (0: none)
    parent2,       \* reference of the second parent drawn (0: none)
    child,         \* reference of the child being mutated
    mi,            \* loop variable i of mutate
    pc,
    response,
    calls,         \* evolve calls made so far in the feed-back sequence
    input_pop,     \* history: contents of current_pop when the running step began
    start_pop,     \* history: contents of current_pop before the first step
    parents,       \* history: ranks in scored_pop of the parents just drawn
    steps_run,     \* history: Generation Steps completed in this call
    init_called,   \* history: create_initial_population was called in this call
    op             \* last operator application (operator specification)

request == <<cities, obstacles, pop_size, mutation_rate, generations_per_step>>
locals == <<heap, current_pop, scored_pop, new_pop, gen, parent1, parent2, child, mi>>
history == <<input_pop, start_pop, parents, steps_run, init_called>>
vars == <<request, req_population, locals, pc, response, calls, history, op>>

NoResponse == [population |-> <<>>, best_route |-> <<>>, best_distance |-> -1, generation |-> -1]
NoParents == <<>>
NoOp == [name |-> "none", in1 |-> <<>>, in2 |-> <<>>, start |-> 0, end |-> 0, out |-> <<>>,
         extra |-> <<>>, penalty |-> 0, cost |-> 0, cost_extra |-> 0]

Contents(h, refs) == [k \in 1..Len(refs) |-> h[refs[k]]]

\* mutant: the child is written into the list of parent1
reuse_parent1(h, p1, p2) == p1

\* line 92: [None] * len(parent1) is a new list object
new_list(h, p1, p2) == Len(h) + 1

Store(h, ref, value) == IF ref \in DOMAIN h THEN [h EXCEPT ![ref] = value] ELSE Append(h, value)

FreshLocals ==
    /\ heap = <<>> /\ current_pop = <<>> /\ scored_pop = <<>> /\ new_pop = <<>>
    /\ gen = 0 /\ parent1 = 0 /\ parent2 = 0 /\ child = 0 /\ mi = 0

FreshHistory ==
    /\ input_pop = <<>> /\ start_pop = <<>> /\ parents = NoParents
    /\ steps_run = 0 /\ init_called = FALSE

\* no request yet
Init ==
    /\ cities = <<>> /\ obstacles = <<>> /\ req_population = <<>>
    /\ pop_size = 1 /\ mutation_rate = 0 /\ generations_per_step = 0
    /\ FreshLocals /\ FreshHistory
    /\ pc = "idle" /\ response = NoResponse /\ calls = 0 /\ op = NoOp

\* ---- requests -----------------------------------------------------------
Called ==
    /\ pc = "idle" /\ pc' = "start" /\ calls' = 1
    /\ UNCHANGED <<locals, response, history, op>>

\* a request with fewer than two cities, any population and settings
RequestGuarded ==
    /\ \E n \in 0..(MIN_CITIES - 1) : cities' = Cities(n)
    /\ req_population' \in {<<>>, <<<<0>>>>, <<<<0, 1>>, <<1, 0>>>>}
    /\ pop_size' \in 1..(MaxInitPop + 1)
    /\ obstacles' \in {<<>>, <<Obstacle(2, 0, 1)>>}
    /\ mutation_rate' \in Rates
    /\ generations_per_step' \in 0..MaxGens
    /\ Called

\* a request with a short population of the caller's and a pop_size one
\* below, at or one above its size
RequestSupplied ==
    /\ \E n \in MIN_CITIES..Len(AllCities), size \in 1..MaxInitPop, offset \in 0..2 :
          /\ cities' = Cities(n)
          /\ req_population' = SeedPopulation(n, size, offset)
          /\ pop_size' \in {k \in (size - 1)..(size + 1) : k >= 1}
    /\ obstacles' \in {<<>>, <<Obstacle(2, 0, 1)>>}
    /\ mutation_rate' \in Rates
    /\ generations_per_step' \in 0..MaxGens
    /\ Called

\* a request without a population: create_initial_population makes pop_size
\* routes (over three cities at most, which keeps their number small); no
\* child is bred from them, so mutate is not called
RequestCreated ==
    /\ \E n \in MIN_CITIES..3 : cities' = Cities(n)
    /\ req_population' = <<>>
    /\ pop_size' \in 1..MaxInitPop
    /\ obstacles' = <<>>
    /\ mutation_rate' = RandRes \div 2
    /\ generations_per_step' \in 0..MaxGens
    /\ Called

\* a request with a population longer than the elite slice, for one step
\* without mutation; further steps come with the calls that feed the
\* population back
RequestLong ==
    /\ cities' = AllCities
    /\ req_population' = SeedPopulation(4, ELITE + 1, 0)
    /\ pop_size' \in {1, ELITE, ELITE + 1}
    /\ obstacles' = <<>>
    /\ mutation_rate' = 0
    /\ generations_per_step' \in 0..1
    /\ Called

\* ---- evolve -------------------------------------------------------------
\* mutant: only an empty city list is turned away
guard_empty_only(n_cities) == n_cities < 1

\* line 117
guard(n_cities) == n_cities < MIN_CITIES

\* lines 117-118
Guard ==
    /\ pc = "start" /\ guard(Len(cities))
    /\ response' = [population |-> <<>>, best_route |-> <<>>, best_distance |-> 0, generation |-> 0]
    /\ pc' = "done"
    /\ UNCHANGED <<request, req_population, locals, calls, history, op>>

\* lines 121-122, population supplied
TakePopulation ==
    /\ pc = "start" /\ ~guard(Len(cities))
    /\ req_population # <<>>
    /\ heap' = req_population
    /\ current_pop' = [k \in 1..Len(req_population) |-> k]
    /\ start_pop' = req_population
    /\ pc' = "loop"
    /\ UNCHANGED <<request, req_population, scored_pop, new_pop, gen, parent1, parent2, child, mi, response, calls,
                   input_pop, parents, steps_run, init_called, op>>

\* lines 121-123, population absent or empty
InitPopulation ==
    /\ pc = "start" /\ ~guard(Len(cities))
    /\ req_population = <<>>
    /\ \E draws \in [1..pop_size -> ShuffleDraws(Len(cities))] :
          /\ heap' = create_initial_population(pop_size, Len(cities), draws)
          /\ current_pop' = [k \in 1..pop_size |-> k]
          /\ start_pop' = heap'
    /\ init_called' = TRUE
    /\ pc' = "loop"
    /\ UNCHANGED <<request, req_population, scored_pop, new_pop, gen, parent1, parent2, child, mi, response, calls,
                   input_pop, parents, steps_run, op>>

\* mutant: range(generations_per_step + 1)
loop_runs_once_more(g, generations) == g <= generations

\* line 126
loop_continues(g, generations) == g < generations

\* lines 128-137: evaluate, rank, keep the elite
Rank ==
    /\ pc = "loop" /\ loop_continues(gen, generations_per_step)
    /\ gen' = gen + 1
    /\ scored_pop' = sort_by_score(
            [k \in 1..Len(current_pop) |->
                [score |-> get_route_distance(heap[current_pop[k]], cities, obstacles),
                 ref |-> current_pop[k]]])
    /\ new_pop' = [k \in 1..Len(elite_slice(scored_pop')) |-> elite_slice(scored_pop')[k].ref]
    /\ input_pop' = Contents(heap, current_pop)
    /\ pc' = "breed"
    /\ UNCHANGED <<request, req_population, heap, current_pop, parent1, parent2, child, mi,
                   response, calls, start_pop, parents, steps_run, init_called, op>>

\* line 140
breeding_continues(size, target) == size < target

\* lines 140-143: the two parents are drawn
Select ==
    /\ pc = "breed" /\ breeding_continues(Len(new_pop), pop_size)
    /\ IF parent_pool(scored_pop) = <<>>
       THEN /\ pc' = "error"
            /\ UNCHANGED <<parent1, parent2, parents>>
       ELSE /\ \E a, b \in 1..Len(parent_pool(scored_pop)) :
                  /\ parent1' = parent_pool(scored_pop)[a].ref
                  /\ parent2' = parent_pool(scored_pop)[b].ref
                  /\ parents' = <<a - 1, b - 1>>
            /\ pc' = "cross"
    /\ UNCHANGED <<request, req_population, heap, current_pop, scored_pop, new_pop, gen, child, mi,
                   response, calls, input_pop, start_pop, steps_run, init_called, op>>

\* lines 144-145 up to the call of mutate; parent1 and parent2 are dead afterwards
Breed ==
    /\ pc = "cross"
    /\ \E r1, r2 \in Draws :
          LET result == breed(heap[parent1], heap[parent2], r1, r2)
          IN  IF result = IndexError
              THEN /\ pc' = "error"
                   /\ UNCHANGED <<heap, child, mi>>
              ELSE /\ child' = new_list(heap, parent1, parent2)
                   /\ heap' = Store(heap, child', result)
                   /\ mi' = 0
                   /\ pc' = "mutate"
    /\ parent1' = 0 /\ parent2' = 0 /\ parents' = NoParents
    /\ UNCHANGED <<request, req_population, current_pop, scored_pop, new_pop, gen, response, calls,
                   input_pop, start_pop, steps_run, init_called, op>>

\* lines 109-112: one iteration of the loop of mutate, on the list itself
MutateStep ==
    /\ pc = "mutate" /\ mi < Len(heap[child])
    /\ \E r, rs \in Draws :
          heap' = [heap EXCEPT ![child] = mutate_step(heap[child], mutation_rate, mi, r, rs)]
    /\ mi' = mi + 1
    /\ UNCHANGED <<request, req_population, current_pop, scored_pop, new_pop, gen,
                   parent1, parent2, child, pc, response, calls, history, op>>

\* lines 113, 145-146
MutateReturn ==
    /\ pc = "mutate" /\ mi >= Len(heap[child])
    /\ new_pop' = Append(new_pop, child)
    /\ pc' = "breed"
    /\ UNCHANGED <<request, req_population, heap, current_pop, scored_pop, gen,
                   parent1, parent2, child, mi, response, calls, history, op>>

\* line 148; the lists no longer referenced are dropped and the rest renumbered
NextGeneration ==
    /\ pc = "breed" /\ ~breeding_continues(Len(new_pop), pop_size)
    /\ heap' = Contents(heap, new_pop)
    /\ current_pop' = [k \in 1..Len(new_pop) |-> k]
    /\ scored_pop' = <<>> /\ new_pop' = <<>> /\ child' = 0 /\ mi' = 0
    /\ steps_run' = steps_run + 1
    /\ pc' = "loop"
    /\ UNCHANGED <<request, req_population, gen, parent1, parent2, response, calls,
                   input_pop, start_pop, parents, init_called, op>>

\* lines 151-159
Return ==
    /\ pc = "loop" /\ ~loop_continues(gen, generations_per_step)
    /\ IF current_pop = <<>>
       THEN pc' = "error" /\ UNCHANGED response
       ELSE /\ response' = [population |-> Contents(heap, current_pop),
                            best_route |-> heap[current_pop[1]],
                            best_distance |-> get_route_distance(heap[current_pop[1]], cities, obstacles),
                            generation |-> 0]
            /\ pc' = "done"
    /\ UNCHANGED <<request, req_population, locals, calls, history, op>>

\* the caller sends the returned population back with the same cities and settings
FeedBack ==
    /\ pc = "done" /\ calls < MaxCalls
    /\ req_population' = response.population
    /\ response' = NoResponse
    /\ calls' = calls + 1
    /\ heap' = <<>> /\ current_pop' = <<>> /\ scored_pop' = <<>> /\ new_pop' = <<>>
    /\ gen' = 0 /\ parent1' = 0 /\ parent2' = 0 /\ child' = 0 /\ mi' = 0
    /\ input_pop' = <<>> /\ start_pop' = <<>> /\ parents' = NoParents
    /\ steps_run' = 0 /\ init_called' = FALSE
    /\ pc' = "start"
    /\ UNCHANGED <<request, op>>

Evolve ==
    \/ Guard \/ TakePopulation \/ InitPopulation \/ Rank \/ Select \/ Breed
    \/ MutateStep \/ MutateReturn \/ NextGeneration \/ Return

Request == RequestGuarded \/ RequestSupplied \/ RequestCreated \/ RequestLong

Next == Request \/ Evolve \/ FeedBack

Spec == Init /\ [][Next]_vars

\* the positions at which a call is running; at each of them exactly the
\* actions of Evolve are enabled, and each of them changes pc, mi or new_pop
Running == pc \in {"start", "loop", "breed", "cross", "mutate"}

RunningIsEnabled == Running <=> ENABLED <<Evolve>>_vars

\* A call, once made, runs on: the handler is synchronous and single-threaded.
\* This is WF_vars(Evolve) with ENABLED <<Evolve>>_vars written as Running.
FairSpec == Spec /\ ([]<>(~Running) \/ []<><<Evolve>>_vars)

\* ---- the operators on their own ------------------------------------------
\* One application of create_initial_population, breed, mutate or
\* get_route_distance to inputs drawn from the bounded sets; op records the
\* inputs and the result.
OpsInit ==
    /\ \E n \in 1..Len(AllCities) : cities = Cities(n)
    /\ obstacles = <<>> /\ req_population = <<>> /\ pop_size = 1
    /\ mutation_rate = 0 /\ generations_per_step = 0
    /\ FreshLocals /\ FreshHistory
    /\ pc = "ops" /\ response = NoResponse /\ calls = 1 /\ op = NoOp

\* lines 77-83
OpCreate ==
    /\ pc = "ops"
    /\ \E size \in 0..MaxInitPop :
          /\ pop_size' = size
          /\ \E draws \in [1..size -> ShuffleDraws(Len(cities))] :
                op' = [NoOp EXCEPT !.name = "create",
                                   !.out = create_initial_population(size, Len(cities), draws)]
    /\ pc' = "ops_done"
    /\ UNCHANGED <<cities, obstacles, mutation_rate, generations_per_step, req_population,
                   locals, response, calls, history>>

\* lines 85-105
OpBreed ==
    /\ pc = "ops"
    /\ \E p1, p2 \in Perms(Len(cities)), r1, r2 \in Draws :
          LET cuts == breed_cuts(Len(p1), r1, r2)
          IN  op' = [NoOp EXCEPT !.name = "breed", !.in1 = p1, !.in2 = p2,
                                 !.start = cuts.start, !.end = cuts.end,
                                 !.out = <<breed(p1, p2, r1, r2)>>]
    /\ pc' = "ops_done"
    /\ UNCHANGED <<request, req_population, locals, response, calls, history>>

\* line 107: mutate is called on a route
OpMutateCall ==
    /\ pc = "ops"
    /\ \E route \in Perms(Len(cities)) :
          /\ heap' = <<route>>
          /\ op' = [NoOp EXCEPT !.name = "mutate_call", !.in1 = route]
    /\ mutation_rate' \in Rates
    /\ child' = 1 /\ mi' = 0
    /\ pc' = "mutate"
    /\ UNCHANGED <<cities, obstacles, pop_size, generations_per_step, req_population,
                   current_pop, scored_pop, new_pop, gen, parent1, parent2,
                   response, calls, history>>

\* line 113
OpMutateReturn ==
    /\ pc = "mutate" /\ mi >= Len(heap[child])
    /\ op' = [op EXCEPT !.name = "mutate", !.out = <<heap[child]>>]
    /\ pc' = "ops_done"
    /\ UNCHANGED <<request, req_population, locals, response, calls, history>>

\* lines 59-75, for a list of obstacles and for the same list with one more
OpCost ==
    /\ pc = "ops"
    /\ \E route \in Perms(Len(cities)), obs \in ObstacleLists, extra \in ObstacleUniverse :
          /\ obstacles' = obs
          /\ op' = [NoOp EXCEPT !.name = "cost", !.in1 = route, !.extra = <<extra>>,
                                !.penalty = route_totals(route, cities, obs).penalty,
                                !.cost = get_route_distance(route, cities, obs),
                                !.cost_extra = get_route_distance(route, cities, Append(obs, extra))]
    /\ pc' = "ops_done"
    /\ UNCHANGED <<cities, pop_size, mutation_rate, generations_per_step, req_population,
                   locals, response, calls, history>>

OpsNext == OpCreate \/ OpBreed \/ OpMutateCall \/ MutateStep \/ OpMutateReturn \/ OpCost

OpsSpec == OpsInit /\ [][OpsNext]_vars

\* ---- properties ----------------------------------------------------------
IsPermutation(route, n) ==
    /\ Len(route) = n
    /\ \A v \in 0..(n - 1) : Cardinality({i \in 1..Len(route) : route[i] = v}) = 1

Cost(route) == get_route_distance(route, cities, obstacles)

MinCost(population) ==
    CHOOSE m \in {Cost(population[k]) : k \in 1..Len(population)} :
        \A k \in 1..Len(population) : m <= Cost(population[k])

\* C1 (OpsSpec): every route made by create_initial_population, every child
\* returned by breed for two permutations and any cut points, and every route
\* returned by mutate for a permutation and any draws, has length N and holds
\* each of 0..N-1 exactly once.
C1_PermutationInvariant ==
    op.name \in {"create", "breed", "mutate"} =>
        \A k \in 1..Len(op.out) : IsPermutation(op.out[k], Len(cities))

C1_Witness ==
    /\ op.name = "breed" /\ Len(cities) = 4
    /\ op.start + 1 < op.end
    /\ op.out[1] \notin {op.in1, op.in2}
    /\ IsPermutation(op.out[1], 4)

\* C2 (Spec), as claimed: after a Generation Step the population has exactly
\* pop_size routes, whatever the size of the input population, and so has the
\* population returned after one step or more.
C2_PopulationSize ==
    /\ (pc = "loop" /\ steps_run > 0) => Len(current_pop) = pop_size
    /\ (pc = "done" /\ steps_run > 0) => Len(response.population) = pop_size

\* C3 (Spec), as claimed: the returned best_route is the first route of the
\* returned population, no route of that population costs less, and
\* best_distance is its cost.
C3_BestRouteFirst ==
    (pc = "done" /\ Len(cities) >= 2) =>
        /\ response.best_route = response.population[1]
        /\ response.best_distance = Cost(response.best_route)
        /\ \A k \in 1..Len(response.population) :
              Cost(response.best_route) <= Cost(response.population[k])

\* C4 (Spec): a Generation Step never raises the minimum cost of the
\* population, and the population a call returns, fed back to the next call,
\* has a minimum cost no higher than the population the call began with.
C4_StepNonRegression ==
    (pc = "breed" /\ pc' = "loop") =>
        MinCost(Contents(heap', current_pop')) <= MinCost(input_pop)

C4_CallNonRegression ==
    (pc = "done" /\ pc' = "start" /\ start_pop # <<>>) =>
        /\ req_population' # <<>>
        /\ MinCost(req_population') <= MinCost(start_pop)

C4_ElitismNonRegression == [][C4_StepNonRegression /\ C4_CallNonRegression]_vars

C4_Witness ==
    /\ pc = "loop" /\ steps_run > 0
    /\ Len(current_pop) > Len(input_pop)
    /\ MinCost(Contents(heap, current_pop)) < MinCost(input_pop)

\* C5 (Spec): with fewer than 2 cities evolve returns the empty result,
\* whatever the population and settings, creates no population and runs no
\* Generation Step.
C5_CityGuard ==
    Len(cities) < 2 =>
        /\ pc \in {"idle", "start", "done"}
        /\ ~init_called /\ steps_run = 0 /\ heap = <<>> /\ current_pop = <<>>
        /\ pc = "done" =>
              response = [population |-> <<>>, best_route |-> <<>>,
                          best_distance |-> 0, generation |-> 0]

C5_Witness ==
    /\ pc = "done" /\ Len(cities) = 1
    /\ req_population # <<>> /\ generations_per_step > 0
    /\ response.population = <<>>

\* C7 (Spec), as claimed: both parents of a breeding iteration have a rank
\* below floor(pop_size / 2) in the cost-ranked population.
C7_ParentPoolTopHalf ==
    pc = "cross" => parents[1] < pop_size \div 2 /\ parents[2] < pop_size \div 2

\* the two end cities of each edge of the closed tour: consecutive pairs and
\* the edge from the last city back to the first
EdgeEnds(route) ==
    [i \in 1..Len(route) |->
        <<cities[route[i] + 1], cities[route[IF i = Len(route) THEN 1 ELSE i + 1] + 1]>>]

RECURSIVE SumDistances(_)
SumDistances(ends) ==
    IF ends = <<>> THEN 0
    ELSE calculate_distance(Head(ends)[1], Head(ends)[2]) + SumDistances(Tail(ends))

Hits(ends, obs) ==
    {ik \in (1..Len(ends)) \X (1..Len(obs)) :
        line_intersects_circle(ends[ik[1]][1], ends[ik[1]][2], obs[ik[2]])}

\* C6 (OpsSpec): get_route_distance adds up the len(route) edges of the closed
\* tour, its penalty is 10000 times the number of (edge, obstacle) pairs that
\* line_intersects_circle accepts, the cost is >= 0, and one more obstacle
\* that intersects an edge raises the cost by at least 10000.
C6_FitnessPenalty ==
    op.name = "cost" =>
        LET ends == EdgeEnds(op.in1)
        IN  /\ op.penalty = 10000 * Cardinality(Hits(ends, obstacles))
            /\ op.cost = SumDistances(ends) + op.penalty
            /\ op.cost >= 0
            /\ Hits(ends, op.extra) # {} => op.cost_extra >= op.cost + 10000

C6_Witness ==
    /\ op.name = "cost" /\ Len(op.in1) = 4 /\ Len(obstacles) = 2
    /\ op.penalty >= 30000
    /\ Hits(EdgeEnds(op.in1), op.extra) # {}
    /\ op.cost_extra >= op.cost + 20000

\* C8 (OpsSpec): the child of breed equals parent1 on [start, end); its other
\* positions, left to right, hold the values of parent2 outside
\* parent1[start:end) in parent2's order; start = end gives parent2.
C8_OX1Structure ==
    op.name = "breed" =>
        LET bred == op.out[1]
            n == Len(op.in1)
            width == op.end - op.start
            segment == {op.in1[i] : i \in (op.start + 1)..op.end}
            NotInSegment(v) == v \notin segment
            rest == SelectSeq(op.in2, NotInSegment)
        IN  /\ op.start <= op.end
            /\ Len(bred) = n
            /\ \A i \in (op.start + 1)..op.end : bred[i] = op.in1[i]
            /\ Len(rest) = n - width
            /\ \A k \in 1..Len(rest) :
                  bred[IF k <= op.start THEN k ELSE k + width] = rest[k]
            /\ op.start = op.end => bred = op.in2

C8_Witness ==
    /\ op.name = "breed" /\ Len(op.in1) = 4
    /\ op.start = 1 /\ op.end = 3
    /\ op.in1 = <<0, 1, 2, 3>> /\ op.in2 = <<3, 2, 1, 0>>
    /\ op.out = <<<<3, 1, 2, 0>>>>

\* position in a population of the route of rank r: routes of lower cost
\* first, routes of equal cost in the order of the population
RankedIndex(costs, r) ==
    CHOOSE i \in DOMAIN costs :
        r = 1 + Cardinality({j \in DOMAIN costs :
                    costs[j] < costs[i] \/ (costs[j] = costs[i] /\ j < i)})

ElitesOf(population, refs) ==
    /\ Len(refs) >= Min(10, Len(population))
    /\ \E costs \in {[k \in 1..Len(population) |-> Cost(population[k])]} :
          \A r \in 1..Min(10, Len(population)) :
              heap[refs[r]] = population[RankedIndex(costs, r)]

\* C9 (Spec): after a Generation Step the first min(10, size of the input)
\* routes are the cheapest routes of the input in ascending cost, ties in
\* input order; while the step breeds and mutates children, these routes and
\* every route of the input population stay as they were.
C9_ElitesUnchanged ==
    /\ (pc = "loop" /\ steps_run > 0) => ElitesOf(input_pop, current_pop)
    /\ pc \in {"breed", "cross", "mutate"} =>
          /\ ElitesOf(input_pop, new_pop)
          /\ Contents(heap, current_pop) = input_pop

C9_Witness ==
    /\ pc = "loop" /\ steps_run > 0
    /\ mutation_rate = RandRes
    /\ Len(input_pop) = 2 /\ Len(current_pop) = 3
    /\ Cost(input_pop[1]) > Cost(input_pop[2])
    /\ heap[current_pop[Len(current_pop)]] \notin Range(input_pop)

\* C10 (FairSpec): a call with at least 2 cities ends, never by an IndexError,
\* after exactly generations_per_step Generation Steps; with 0 steps it
\* returns the population it started from.
C10_Termination ==
    /\ [](pc # "error")
    /\ []((pc = "done" /\ Len(cities) >= 2) =>
            /\ steps_run = generations_per_step
            /\ generations_per_step = 0 => response.population = start_pop)
    /\ (pc = "start") ~> (pc = "done")

C10_Witness ==
    /\ pc = "done" /\ generations_per_step = 2 /\ steps_run = 2
    /\ init_called
    /\ Len(response.population) = pop_size

====
